---- MODULE Spec2Model ----
(***************************************************************************)
(* Model of plugins/vsphere/pkg/command/source.go: the "kn vsphere source" *)
(* command.  SourceOptions is filled by flag parsing, PreRunE validates    *)
(* it, RunE resolves the namespace, parses the address, builds the sink    *)
(* destination, creates the VSphereSource and prints a confirmation.       *)
(*                                                                         *)
(* Spec    models one execution of the command (PreRunE then RunE).        *)
(* SpecFn  models direct calls of AsSinkDestination and newSource on       *)
(*         arbitrary options, as a unit test would make them.              *)
(*                                                                         *)
(* A Go pointer is a sequence: <<>> is nil, <<v>> points to v.             *)
(* A time.Duration is kept as [sec, nsec], the quotient and remainder of   *)
(* its int64 nanosecond count by time.Second (both carry the sign).        *)
(***************************************************************************)
EXTENDS Integers, Sequences, FiniteSets, TLC

VARIABLES options, pc, err, namespace, address, sinkDestination, source,
          resolverCalls, createCalls, out

vars == <<options, pc, err, namespace, address, sinkDestination, source,
          resolverCalls, createCalls, out>>

(***************************** bounds **************************************)
\* largest power of two (in seconds) around which durations are sampled
MaxExp == 25
\* durations are sampled with 1 .. MaxGap nanoseconds missing to a whole second
MaxGap == 2

(***************************** Go basics ***********************************)
Nil == <<>>
Ptr(v) == <<v>>
NoError == "nil"

Second == 1000000000
Float64Bits == 53
\* binary digits of a quotient by Second that are ever needed: up to 29
\* leading zeros (1ns/1s > 2^-30), 53 significant digits and a rounding digit
QuotientDigits == 84

(***************************** net/url *************************************)
\* url.Parse on the strings the model uses: scheme://host, a relative path,
\* the empty string, and a string with an invalid percent-escape.
urlParse(s) ==
  CASE s = "https://vc.local" -> [url |-> [Scheme |-> "https", Host |-> "vc.local", Path |-> ""], err |-> NoError]
    [] s = "http://sink"      -> [url |-> [Scheme |-> "http", Host |-> "sink", Path |-> ""], err |-> NoError]
    [] s = "/events"          -> [url |-> [Scheme |-> "", Host |-> "", Path |-> "/events"], err |-> NoError]
    [] s = ""                 -> [url |-> [Scheme |-> "", Host |-> "", Path |-> ""], err |-> NoError]
    [] OTHER                  -> [url |-> [Scheme |-> "", Host |-> "", Path |-> ""], err |-> "invalid URL escape"]

(***************************** float64 *************************************)
\* A finite float64 of the shape used by Duration.Seconds: sign, integer
\* part and the binary digits of the fractional part (most significant
\* first).  Every value is one that 53 significant digits can hold.

Abs(i) == IF i < 0 THEN -i ELSE i

RECURSIVE BitLen(_)
BitLen(n) == IF n = 0 THEN 0 ELSE 1 + BitLen(n \div 2)

\* digits + one unit in the last place; carry = 1 when it overflows to 1.0
IncBits(b) ==
  IF \A i \in DOMAIN b : b[i] = 1
  THEN [bits |-> [i \in DOMAIN b |-> 0], carry |-> 1]
  ELSE LET p == CHOOSE i \in DOMAIN b : b[i] = 0 /\ \A j \in DOMAIN b : j > i => b[j] = 1
       IN  [bits |-> [i \in DOMAIN b |-> IF i < p THEN b[i] ELSE IF i = p THEN 1 ELSE 0],
            carry |-> 0]

\* round-to-nearest-even of 0.b1 b2 ... (followed by a non-zero tail when
\* sticky) to its first keep digits
RoundBits(b, keep, sticky) ==
  LET kept  == SubSeq(b, 1, keep)
      round == IF keep + 1 <= Len(b) THEN b[keep + 1] ELSE 0
      rest  == sticky \/ \E i \in (keep + 2)..Len(b) : b[i] = 1
      odd   == keep > 0 /\ b[keep] = 1
  IN  IF round = 1 /\ (rest \/ odd) THEN IncBits(kept) ELSE [bits |-> kept, carry |-> 0]

\* long division: the first n binary digits of r / Second (r < Second) and
\* the remainder left after them (computed by halves to keep the nesting low)
RECURSIVE DivBits(_, _)
DivBits(r, n) ==
  IF n = 0 THEN [bits |-> <<>>, rem |-> r]
  ELSE IF n = 1
  THEN IF 2 * r >= Second THEN [bits |-> <<1>>, rem |-> 2 * r - Second]
                          ELSE [bits |-> <<0>>, rem |-> 2 * r]
  ELSE LET hi == DivBits(r, n \div 2)
           lo == DivBits(hi.rem, n - n \div 2)
       IN  [bits |-> hi.bits \o lo.bits, rem |-> lo.rem]

\* float64(n) / 1e9 for an integer 0 <= n < 1e9: the correctly rounded quotient
FloatDivSecond(n) ==
  IF n = 0 THEN <<>>
  ELSE LET q == DivBits(n, QuotientDigits)
           z == (CHOOSE i \in 1..QuotientDigits :
                   q.bits[i] = 1 /\ \A j \in 1..(i - 1) : q.bits[j] = 0) - 1
       IN  RoundBits(q.bits, z + Float64Bits, q.rem # 0).bits

\* float64(s) + f for an integer s >= 0 and a fraction f: the exact sum
\* rounded to 53 significant digits
FloatAdd(s, f) ==
  IF s = 0 \/ f = <<>> THEN [int |-> s, frac |-> f]
  ELSE LET r == RoundBits(f, Float64Bits - BitLen(s), FALSE)
       IN  [int |-> s + r.carry, frac |-> r.bits]

\* Duration.Seconds: float64(d / Second) + float64(d % Second) / 1e9
Seconds(d) ==
  LET v == FloatAdd(Abs(d.sec), FloatDivSecond(Abs(d.nsec)))
  IN  [neg |-> d.sec < 0 \/ d.nsec < 0, int |-> v.int, frac |-> v.frac]

\* int64(f) taken as rounding to the nearest integer
Int64OfFloat_Nearest(f) ==
  LET up == IF f.frac # <<>> /\ f.frac[1] = 1 THEN 1 ELSE 0
  IN  IF f.neg THEN -(f.int + up) ELSE f.int + up

\* int64(f): the conversion discards the fraction (truncates toward zero)
Int64OfFloat(f) == IF f.neg THEN -f.int ELSE f.int

(***************************** SourceOptions *******************************)
sinkURL(so) ==
  IF so.SinkURI = "" THEN [url |-> Nil, err |-> NoError]
  ELSE LET p == urlParse(so.SinkURI)
       IN  IF p.err # NoError THEN [url |-> Nil, err |-> p.err]
           ELSE [url |-> Ptr(p.url), err |-> NoError]

\* sinkReference that drops the reference when a sink URI is given
sinkReference_UnlessURI(so, ns) ==
  IF so.SinkAPIVersion = "" \/ so.SinkURI # "" THEN Nil
  ELSE Ptr([APIVersion |-> so.SinkAPIVersion,
            Kind       |-> so.SinkKind,
            Namespace  |-> ns,
            Name       |-> so.SinkName])

sinkReference(so, ns) ==
  IF so.SinkAPIVersion = "" THEN Nil
  ELSE Ptr([APIVersion |-> so.SinkAPIVersion,
            Kind       |-> so.SinkKind,
            Namespace  |-> ns,
            Name       |-> so.SinkName])

\* AsSinkDestination that builds the reference without the namespace
AsSinkDestination_NoNamespace(so, ns) ==
  LET u == sinkURL(so)
  IN  IF u.err # NoError THEN [dest |-> Nil, err |-> u.err]
      ELSE [dest |-> Ptr([Ref |-> sinkReference(so, ""), URI |-> u.url]), err |-> NoError]

AsSinkDestination(so, ns) ==
  LET u == sinkURL(so)
  IN  IF u.err # NoError THEN [dest |-> Nil, err |-> u.err]
      ELSE [dest |-> Ptr([Ref |-> sinkReference(so, ns), URI |-> u.url]), err |-> NoError]

\* newSource that takes the namespace from the option, not the resolved one
newSource_OptionNamespace(ns, dest, addr, so) ==
  [ObjectMeta |-> [Namespace |-> so.Namespace, Name |-> so.Name],
   Spec |-> [Sink             |-> dest[1],
             Address          |-> addr[1],
             SkipTLSVerify    |-> so.SkipTLSVerify,
             SecretRef        |-> [Name |-> so.SecretRef],
             CheckpointConfig |-> [MaxAgeSeconds |-> Int64OfFloat(Seconds(so.CheckpointMaxAge)),
                                   PeriodSeconds |-> Int64OfFloat(Seconds(so.CheckpointPeriod))]]]

newSource(ns, dest, addr, so) ==
  [ObjectMeta |-> [Namespace |-> ns, Name |-> so.Name],
   Spec |-> [Sink             |-> dest[1],
             Address          |-> addr[1],
             SkipTLSVerify    |-> so.SkipTLSVerify,
             SecretRef        |-> [Name |-> so.SecretRef],
             CheckpointConfig |-> [MaxAgeSeconds |-> Int64OfFloat(Seconds(so.CheckpointMaxAge)),
                                   PeriodSeconds |-> Int64OfFloat(Seconds(so.CheckpointPeriod))]]]

(***************************** PreRunE *************************************)
ErrName      == "'name' requires a nonempty name provided with the --name option"
ErrAddress   == "'address' requires a nonempty address provided with the --address option"
ErrSecretRef == "'secret-ref' requires a nonempty secret reference provided with the --secret-ref option"
ErrSink      == "sink requires an URI and/or a nonempty API version, kind and name"

ErrNamespace    == "failed to get namespace"
ErrParseAddress == "failed to parse source address"
ErrParseSink    == "failed to parse sink address"
ErrCreate       == "failed to create source"

\* PreRunE without the secret-ref test
preRunE_NoSecretRef(so) ==
  LET sinkCoordinatesAllEmpty == so.SinkAPIVersion = "" /\ so.SinkKind = "" /\ so.SinkName = ""
      sinkCoordinatesAllSet   == so.SinkAPIVersion # "" /\ so.SinkKind # "" /\ so.SinkName # ""
  IN  IF so.Name = "" THEN ErrName
      ELSE IF so.Address = "" THEN ErrAddress
      ELSE IF (so.SinkURI = "" /\ sinkCoordinatesAllEmpty)
              \/ (~sinkCoordinatesAllEmpty /\ ~sinkCoordinatesAllSet) THEN ErrSink
      ELSE NoError

\* PreRunE whose sink test rejects only the sink that is missing altogether
preRunE_NoPartialTest(so) ==
  LET sinkCoordinatesAllEmpty == so.SinkAPIVersion = "" /\ so.SinkKind = "" /\ so.SinkName = ""
  IN  IF so.Name = "" THEN ErrName
      ELSE IF so.Address = "" THEN ErrAddress
      ELSE IF so.SecretRef = "" THEN ErrSecretRef
      ELSE IF so.SinkURI = "" /\ sinkCoordinatesAllEmpty THEN ErrSink
      ELSE NoError

\* PreRunE whose sink test demands the three coordinates whatever the URI
preRunE_CoordinatesRequired(so) ==
  LET sinkCoordinatesAllSet == so.SinkAPIVersion # "" /\ so.SinkKind # "" /\ so.SinkName # ""
  IN  IF so.Name = "" THEN ErrName
      ELSE IF so.Address = "" THEN ErrAddress
      ELSE IF so.SecretRef = "" THEN ErrSecretRef
      ELSE IF ~sinkCoordinatesAllSet THEN ErrSink
      ELSE NoError

\* PreRunE whose sink test lets the sink that is missing altogether through
preRunE_NoEmptyTest(so) ==
  LET sinkCoordinatesAllEmpty == so.SinkAPIVersion = "" /\ so.SinkKind = "" /\ so.SinkName = ""
      sinkCoordinatesAllSet   == so.SinkAPIVersion # "" /\ so.SinkKind # "" /\ so.SinkName # ""
  IN  IF so.Name = "" THEN ErrName
      ELSE IF so.Address = "" THEN ErrAddress
      ELSE IF so.SecretRef = "" THEN ErrSecretRef
      ELSE IF ~sinkCoordinatesAllEmpty /\ ~sinkCoordinatesAllSet THEN ErrSink
      ELSE NoError

\* the error PreRunE returns for the options
preRunE(so) ==
  LET sinkCoordinatesAllEmpty == so.SinkAPIVersion = "" /\ so.SinkKind = "" /\ so.SinkName = ""
      sinkCoordinatesAllSet   == so.SinkAPIVersion # "" /\ so.SinkKind # "" /\ so.SinkName # ""
  IN  IF so.Name = "" THEN ErrName
      ELSE IF so.Address = "" THEN ErrAddress
      ELSE IF so.SecretRef = "" THEN ErrSecretRef
      ELSE IF (so.SinkURI = "" /\ sinkCoordinatesAllEmpty)
              \/ (~sinkCoordinatesAllEmpty /\ ~sinkCoordinatesAllSet) THEN ErrSink
      ELSE NoError

(***************************** collaborators *******************************)
\* clients.GetExplicitOrDefaultNamespace: the outcomes it can have.  An
\* explicit namespace is returned verbatim; otherwise the caller's default
\* is looked up, which can fail.
GetExplicitOrDefaultNamespace(explicit) ==
  IF explicit # "" THEN {[ns |-> explicit, err |-> NoError]}
  ELSE {[ns |-> "default", err |-> NoError], [ns |-> "", err |-> "no current context"]}

\* VSphereSources(namespace).Create: the errors the API server can answer
CreateOutcomes == {NoError, "already exists"}

(***************************** inputs **************************************)
DurSecs == {0, 1, 90} \cup {2^e - 1 : e \in 24..MaxExp} \cup {2^e : e \in 24..MaxExp}
DurNsecs == {0, 1, 500000000} \cup {Second - g : g \in 1..MaxGap}
Durations == {[sec |-> sg * s, nsec |-> sg * n] : s \in DurSecs, n \in DurNsecs, sg \in {1, -1}}
SmallDurations == {[sec |-> 300, nsec |-> 0], [sec |-> 90, nsec |-> 500000000],
                   [sec |-> -1, nsec |-> -500000000]}

SinkURIs == {"", "http://sink", "/events", "%zz"}

\* what flag parsing can leave in options before PreRunE
CmdOptions ==
  [Namespace : {"", "ns"}, Name : {"", "s"}, Address : {"", "https://vc.local", "%zz"},
   SkipTLSVerify : BOOLEAN, SecretRef : {"", "cred"},
   SinkURI : SinkURIs, SinkAPIVersion : {"", "v1"}, SinkKind : {"", "Service"},
   SinkName : {"", "svc"},
   CheckpointMaxAge : SmallDurations, CheckpointPeriod : SmallDurations]

\* options handed to AsSinkDestination and newSource when called directly
FnOptions ==
  [Namespace : {""}, Name : {"", "s"}, Address : {"https://vc.local"},
   SkipTLSVerify : {TRUE}, SecretRef : {"", "cred"},
   SinkURI : SinkURIs, SinkAPIVersion : {"", "v1"}, SinkKind : {"", "Service"},
   SinkName : {"", "svc"},
   CheckpointMaxAge : Durations, CheckpointPeriod : SmallDurations]
  \cup
  [Namespace : {""}, Name : {"s"}, Address : {"https://vc.local"},
   SkipTLSVerify : {FALSE}, SecretRef : {"cred"},
   SinkURI : {"http://sink"}, SinkAPIVersion : {"", "v1"}, SinkKind : {"", "Service"},
   SinkName : {"", "svc"},
   CheckpointMaxAge : SmallDurations, CheckpointPeriod : Durations]

FnNamespaces == {"ns", "default"}

(***************************** the command *********************************)
Init ==
  /\ options \in CmdOptions
  /\ pc = "PreRunE"
  /\ err = NoError
  /\ namespace = ""
  /\ address = Nil
  /\ sinkDestination = Nil
  /\ source = Nil
  /\ resolverCalls = <<>>
  /\ createCalls = <<>>
  /\ out = <<>>

PreRunE ==
  /\ pc = "PreRunE"
  /\ LET e == preRunE(options)
     IN  IF e # NoError
         THEN err' = e /\ pc' = "done"
         ELSE err' = err /\ pc' = "GetNamespace"
  /\ UNCHANGED <<options, namespace, address, sinkDestination, source,
                 resolverCalls, createCalls, out>>

RunE_GetNamespace ==
  /\ pc = "GetNamespace"
  /\ \E r \in GetExplicitOrDefaultNamespace(options.Namespace) :
       /\ resolverCalls' = Append(resolverCalls,
                                  [explicit |-> options.Namespace, ns |-> r.ns, err |-> r.err])
       /\ IF r.err # NoError
          THEN err' = ErrNamespace /\ pc' = "done" /\ namespace' = namespace
          ELSE err' = err /\ pc' = "ParseAddress" /\ namespace' = r.ns
  /\ UNCHANGED <<options, address, sinkDestination, source, createCalls, out>>

RunE_ParseAddress ==
  /\ pc = "ParseAddress"
  /\ LET p == urlParse(options.Address)
     IN  IF p.err # NoError
         THEN err' = ErrParseAddress /\ pc' = "done" /\ address' = address
         ELSE err' = err /\ pc' = "AsSinkDestination" /\ address' = Ptr(p.url)
  /\ UNCHANGED <<options, namespace, sinkDestination, source, resolverCalls,
                 createCalls, out>>

RunE_AsSinkDestination ==
  /\ pc = "AsSinkDestination"
  /\ LET r == AsSinkDestination(options, namespace)
     IN  IF r.err # NoError
         THEN err' = ErrParseSink /\ pc' = "done" /\ sinkDestination' = sinkDestination
         ELSE err' = err /\ pc' = "Create" /\ sinkDestination' = r.dest
  /\ UNCHANGED <<options, namespace, address, source, resolverCalls, createCalls, out>>

\* RunE that tries Create a second time when the first attempt failed
RunE_Create_Retry ==
  /\ pc = "Create"
  /\ \E e \in CreateOutcomes, e2 \in CreateOutcomes :
       LET src  == newSource(namespace, sinkDestination, address, options)
           call == [namespace |-> namespace, source |-> src, err |-> e]
       IN  /\ source' = Ptr(src)
           /\ IF e = NoError
              THEN /\ createCalls' = Append(createCalls, call)
                   /\ err' = err /\ pc' = "Fprintln"
              ELSE /\ createCalls' = createCalls \o <<call, [call EXCEPT !.err = e2]>>
                   /\ IF e2 # NoError THEN err' = ErrCreate /\ pc' = "done"
                                      ELSE err' = err /\ pc' = "Fprintln"
  /\ UNCHANGED <<options, namespace, address, sinkDestination, resolverCalls, out>>

\* RunE that prints the confirmation whatever Create answered
RunE_Create_ErrIgnored ==
  /\ pc = "Create"
  /\ \E e \in CreateOutcomes :
       LET src == newSource(namespace, sinkDestination, address, options)
       IN  /\ source' = Ptr(src)
           /\ createCalls' = Append(createCalls,
                                    [namespace |-> namespace, source |-> src, err |-> e])
           /\ err' = err
           /\ pc' = "Fprintln"
  /\ UNCHANGED <<options, namespace, address, sinkDestination, resolverCalls, out>>

RunE_Create ==
  /\ pc = "Create"
  /\ \E e \in CreateOutcomes :
       LET src == newSource(namespace, sinkDestination, address, options)
       IN  /\ source' = Ptr(src)
           /\ createCalls' = Append(createCalls,
                                    [namespace |-> namespace, source |-> src, err |-> e])
           /\ IF e # NoError
              THEN err' = ErrCreate /\ pc' = "done"
              ELSE err' = err /\ pc' = "Fprintln"
  /\ UNCHANGED <<options, namespace, address, sinkDestination, resolverCalls, out>>

RunE_Fprintln ==
  /\ pc = "Fprintln"
  /\ out' = Append(out, "Created source")
  /\ err' = NoError
  /\ pc' = "done"
  /\ UNCHANGED <<options, namespace, address, sinkDestination, source,
                 resolverCalls, createCalls>>

Next ==
  \/ PreRunE
  \/ RunE_GetNamespace
  \/ RunE_ParseAddress
  \/ RunE_AsSinkDestination
  \/ RunE_Create
  \/ RunE_Fprintln

Spec == Init /\ [][Next]_vars

(***************************** direct calls ********************************)
InitFn ==
  /\ options \in FnOptions
  /\ pc = "fn_dest"
  /\ err = NoError
  /\ namespace = ""
  /\ address = Nil
  /\ sinkDestination = Nil
  /\ source = Nil
  /\ resolverCalls = <<>>
  /\ createCalls = <<>>
  /\ out = <<>>

FnAsSinkDestination ==
  /\ pc = "fn_dest"
  /\ \E ns \in FnNamespaces :
       LET r == AsSinkDestination(options, ns)
       IN  /\ namespace' = ns
           /\ sinkDestination' = r.dest
           /\ err' = r.err
           /\ pc' = IF r.err # NoError THEN "fn_done" ELSE "fn_source"
  /\ UNCHANGED <<options, address, source, resolverCalls, createCalls, out>>

FnNewSource ==
  /\ pc = "fn_source"
  /\ address' = Ptr(urlParse(options.Address).url)
  /\ source' = Ptr(newSource(namespace, sinkDestination, address', options))
  /\ pc' = "fn_done"
  /\ UNCHANGED <<options, err, namespace, sinkDestination, resolverCalls, createCalls, out>>

NextFn ==
  \/ FnAsSinkDestination
  \/ FnNewSource

SpecFn == InitFn /\ [][NextFn]_vars

TypeOK ==
  /\ pc \in {"PreRunE", "GetNamespace", "ParseAddress", "AsSinkDestination", "Create",
              "Fprintln", "done", "fn_dest", "fn_source", "fn_done"}
  /\ Len(sinkDestination) <= 1 /\ Len(address) <= 1 /\ Len(source) <= 1

(***************************** properties **********************************)
Required(so) == so.Name # "" /\ so.Address # "" /\ so.SecretRef # ""

\* how many of the three sink coordinates are non-empty
CoordCount(so) ==
  (IF so.SinkAPIVersion # "" THEN 1 ELSE 0) + (IF so.SinkKind # "" THEN 1 ELSE 0)
    + (IF so.SinkName # "" THEN 1 ELSE 0)

ValidationErrors == {ErrName, ErrAddress, ErrSecretRef, ErrSink}
FailedValidation == pc = "done" /\ err \in ValidationErrors
PassedValidation == pc # "PreRunE" /\ ~FailedValidation
DestinationBuilt == pc \in {"Create", "Fprintln", "done"} /\ sinkDestination # Nil
CreateSucceeded == createCalls # <<>> /\ createCalls[1].err = NoError

\* C1: options with an empty name, address or secretRef never get past
\* PreRunE: the execution ends with a validation error, and neither the
\* namespace resolver nor Create is ever called.
C1_EmptyRequiredFailsBeforeClient ==
  (options.Name = "" \/ options.Address = "" \/ options.SecretRef = "") =>
    /\ pc \in {"PreRunE", "done"}
    /\ pc = "done" => err \in ValidationErrors
    /\ resolverCalls = <<>>
    /\ createCalls = <<>>

C1_Witness ==
  /\ pc = "done" /\ err = ErrSecretRef
  /\ options.Name # "" /\ options.Address # "" /\ options.SecretRef = ""

\* C2: with an empty sinkURI and fewer than three non-empty coordinates the
\* execution ends with a validation error and no Create call is made.
C2_MissingSinkFails ==
  (options.SinkURI = "" /\ CoordCount(options) < 3) =>
    /\ pc \in {"PreRunE", "done"}
    /\ pc = "done" => err \in ValidationErrors
    /\ createCalls = <<>>

C2_Witness ==
  /\ pc = "done" /\ err = ErrSink
  /\ Required(options) /\ options.SinkURI = "" /\ CoordCount(options) = 2

\* C3 as stated: with name, address and secretRef set, PreRunE accepts the
\* options whenever sinkURI is non-empty or all three coordinates are set.
C3_Original ==
  (pc # "PreRunE" /\ Required(options)
     /\ (options.SinkURI # "" \/ CoordCount(options) = 3)) => ~FailedValidation

\* C3 amended: with name, address and secretRef set, PreRunE accepts the
\* options exactly when the three coordinates are all set, or are all empty
\* and sinkURI is non-empty; a partly filled triple is rejected even when
\* sinkURI is given.
C3_SinkAcceptedIff ==
  (pc # "PreRunE" /\ Required(options)) =>
    (PassedValidation <=>
       (CoordCount(options) = 3 \/ (options.SinkURI # "" /\ CoordCount(options) = 0)))

C3_Witness ==
  /\ PassedValidation /\ Required(options)
  /\ options.SinkURI # "" /\ CoordCount(options) = 0

\* C4 as stated: the destination built for validated options has exactly
\* one of URI and Ref non-nil.
C4_Original ==
  DestinationBuilt =>
    ((sinkDestination[1].URI # Nil) <=> (sinkDestination[1].Ref = Nil))

\* C4 amended: the destination built for validated options has at least one
\* of URI and Ref non-nil; URI is non-nil exactly when sinkURI is set and Ref
\* is non-nil exactly when the three coordinates are set, so both are
\* non-nil when both a sinkURI and the coordinates are given.
C4_DestinationForms ==
  DestinationBuilt =>
    /\ sinkDestination[1].URI # Nil \/ sinkDestination[1].Ref # Nil
    /\ (sinkDestination[1].URI # Nil) <=> (options.SinkURI # "")
    /\ (sinkDestination[1].Ref # Nil) <=> (CoordCount(options) = 3)

C4_Witness ==
  /\ DestinationBuilt
  /\ sinkDestination[1].URI # Nil /\ sinkDestination[1].Ref # Nil

\* C5: AsSinkDestination(ns) returns, for an empty sinkURI and three
\* non-empty coordinates, a nil URI and the Ref {apiVersion, kind, ns, name};
\* for a parseable sinkURI and three empty coordinates, a non-nil URI and a
\* nil Ref.
C5_DestinationValue ==
  pc \in {"fn_source", "fn_done"} =>
    /\ (options.SinkURI = "" /\ CoordCount(options) = 3) =>
         /\ err = NoError
         /\ sinkDestination =
              <<[Ref |-> <<[APIVersion |-> options.SinkAPIVersion,
                            Kind       |-> options.SinkKind,
                            Namespace  |-> namespace,
                            Name       |-> options.SinkName]>>,
                 URI |-> <<>>]>>
    /\ (options.SinkURI # "" /\ urlParse(options.SinkURI).err = NoError
          /\ CoordCount(options) = 0) =>
         /\ err = NoError
         /\ sinkDestination # <<>>
         /\ sinkDestination[1].URI # <<>>
         /\ sinkDestination[1].Ref = <<>>

C5_Witness ==
  /\ pc = "fn_source" /\ namespace = "ns"
  /\ options.SinkURI = "" /\ options.SinkAPIVersion = "v1"
  /\ options.SinkKind = "Service" /\ options.SinkName = "svc"
  /\ sinkDestination[1].Ref[1].Namespace = "ns"

\* the steps before Create, read off the inputs and the resolver's answer
EarlierStepsSucceeded ==
  /\ Required(options)
  /\ CoordCount(options) = 3 \/ (options.SinkURI # "" /\ CoordCount(options) = 0)
  /\ resolverCalls # <<>> /\ resolverCalls[1].err = NoError
  /\ urlParse(options.Address).err = NoError
  /\ options.SinkURI = "" \/ urlParse(options.SinkURI).err = NoError

\* C6: Create is called at most once (also when it failed), only after
\* validation, namespace resolution, address parsing and sink parsing all
\* succeeded, and a finished execution has called it exactly once if and
\* only if they all succeeded.
C6_CreateAtMostOnce ==
  /\ Len(createCalls) <= 1
  /\ createCalls # <<>> => EarlierStepsSucceeded
  /\ pc = "done" => (Len(createCalls) = 1 <=> EarlierStepsSucceeded)
  /\ Len(resolverCalls) <= 1

C6_Witness ==
  /\ pc = "done" /\ err = ErrCreate
  /\ Len(createCalls) = 1 /\ createCalls[1].err # NoError

\* C7: "Created source" is written, once, if and only if Create returned
\* success; a finished execution returns no error exactly when it printed.
C7_PrintedIffCreated ==
  /\ out \in {<<>>, <<"Created source">>}
  /\ out # <<>> => (CreateSucceeded /\ pc = "done" /\ err = NoError)
  /\ pc = "done" => (out # <<>> <=> CreateSucceeded)
  /\ pc = "done" => (err = NoError <=> out # <<>>)

C7_Witness ==
  /\ pc = "done" /\ out = <<"Created source">> /\ err = NoError

\* the stored seconds of a built resource
StoredSeconds ==
  <<source[1].Spec.CheckpointConfig.MaxAgeSeconds,
    source[1].Spec.CheckpointConfig.PeriodSeconds>>
GivenDurations == <<options.CheckpointMaxAge, options.CheckpointPeriod>>

\* C8 as stated: for every duration the stored seconds are the duration
\* truncated toward zero to whole seconds.
C8_Original ==
  source # Nil => \A i \in 1..2 : StoredSeconds[i] = GivenDurations[i].sec

\* C8 amended: for every duration shorter than 2^24 seconds in magnitude the
\* stored seconds are the duration truncated toward zero (90.5s gives 90,
\* -1.5s gives -1); from 2^24 seconds on they are that truncation or, when
\* the float64 sum rounds the sub-second part up to a whole second, one
\* second further from zero.
C8_TruncatedBelow2p24 ==
  source # Nil =>
    \A i \in 1..2 :
      LET d == GivenDurations[i]
          v == StoredSeconds[i]
      IN  /\ Abs(d.sec) < 2^24 => v = d.sec
          /\ \/ v = d.sec
             \/ /\ Abs(d.sec) >= 2^24
                /\ d.nsec # 0
                /\ v = d.sec + (IF d.sec < 0 THEN -1 ELSE 1)

C8_Witness ==
  /\ source # Nil
  /\ options.CheckpointMaxAge = [sec |-> 90, nsec |-> 500000000]
  /\ source[1].Spec.CheckpointConfig.MaxAgeSeconds = 90
  /\ options.CheckpointPeriod = [sec |-> -1, nsec |-> -500000000]
  /\ source[1].Spec.CheckpointConfig.PeriodSeconds = -1

\* C9: every resource handed to Create has a well-formed sink: a non-nil
\* URI or a Ref, and a Ref never has an empty apiVersion, kind or name.
C9_WellFormedSink ==
  \A i \in DOMAIN createCalls :
    LET sink == createCalls[i].source.Spec.Sink
    IN  /\ sink.URI # Nil \/ sink.Ref # Nil
        /\ sink.Ref # Nil =>
             /\ sink.Ref[1].APIVersion # ""
             /\ sink.Ref[1].Kind # ""
             /\ sink.Ref[1].Name # ""

C9_Witness ==
  /\ createCalls # <<>>
  /\ createCalls[1].source.Spec.Sink.URI = Nil
  /\ createCalls[1].source.Spec.Sink.Ref # Nil

\* C10: a Create call is addressed to the namespace the resolver returned
\* for the namespace option; the resource's ObjectMeta.Namespace and the
\* namespace of its sink Ref are that same value, its name is the name
\* option and its SecretRef.Name the secretRef option.
C10_OneNamespace ==
  \A i \in DOMAIN createCalls :
    LET c == createCalls[i]
    IN  /\ Len(resolverCalls) = 1
        /\ resolverCalls[1].explicit = options.Namespace
        /\ resolverCalls[1].err = NoError
        /\ c.namespace = resolverCalls[1].ns
        /\ c.source.ObjectMeta.Namespace = resolverCalls[1].ns
        /\ c.source.Spec.Sink.Ref # Nil =>
             c.source.Spec.Sink.Ref[1].Namespace = resolverCalls[1].ns
        /\ c.source.ObjectMeta.Name = options.Name
        /\ c.source.Spec.SecretRef.Name = options.SecretRef

C10_Witness ==
  /\ createCalls # <<>>
  /\ options.Namespace = ""
  /\ createCalls[1].namespace = "default"
  /\ createCalls[1].source.Spec.Sink.Ref # Nil

====
